---- MODULE Spec2Model ----
(***************************************************************************)
(* GPU worker thread of src/core/gpu_thread.cpp: the command FIFO          *)
(* (AllocateCommand / PushCommand* / RunGPULoop), the wake/sleep/sync      *)
(* protocol (WakeGPUThread / SleepGPUThread / SyncGPUThread) and Shutdown. *)
(*                                                                         *)
(* Two threads, the producer (CPU thread) and the consumer (GPU thread),   *)
(* interleave at the granularity of one shared-memory access per step.     *)
(* Offsets and sizes are in bytes, as in the source.  The 4 MiB queue is   *)
(* scaled down to QueueWords 4-byte words; the wake threshold is scaled    *)
(* with it.  DebugAssert compiles to nothing in release builds: execution  *)
(* continues past a failing one.                                           *)
(***************************************************************************)
EXTENDS Integers, Sequences, FiniteSets, TLC

\* ---------------------------------------------------------------- bounds
QueueWords == 7
WakeThresholdWords == 4
MaxCmds == 4
MaxRunIdleCmds == 2
MaxFairCmds == 3
MaxWakeCount == 1
MaxSemaphore == 2
MaxDeviceCmds == 2
MaxFaults == 2
MaxTicks == 3
MaxThunkCmds == 2
MaxLostCmds == 1
MaxVSyncCmds == 3
TickSeconds == 5

\* ------------------------------------------------------------- constants
COMMAND_QUEUE_SIZE == 4 * QueueWords
THRESHOLD_TO_WAKE_GPU == 4 * WakeThresholdWords
THREAD_WAKE_COUNT_CPU_THREAD_IS_WAITING == 1073741824
THREAD_WAKE_COUNT_SLEEPING == -1

\* sizeof(GPUBackendCommandType): a one-byte tag
sizeofGPUBackendCommandType == 1
\* sizeof(GPUThreadCommand): the tag and the u32 size, 4-byte aligned
sizeofGPUThreadCommand == 8
\* sizeof(GPUBackendCommand): an 8-byte GPUThreadCommand header + 4 bytes of params
sizeofGPUBackendCommand == 12

\* sizeof(GPUThreadAsyncCallCommand): the header and the std::function, scaled
\* to one word
sizeofGPUThreadAsyncCallCommand == sizeofGPUThreadCommand + 4

\* line 594, in seconds
MIN_TIME_BETWEEN_RESETS == 15

\* Sizes the callers request (bytes, before alignment).
RequestSizes == {10, 14}

Words == 0 .. (QueueWords - 1)
WrapId == -1
EmptyCell == <<0, 0>>

\* ---------------------------------------------------------------- helpers
AlignUpPow2(value, alignment) ==
  ((value + (alignment - 1)) \div alignment) * alignment

\* bit 30 of a two's complement s32
WaitingBit(state) ==
  IF state < 0
    THEN (IF state >= -THREAD_WAKE_COUNT_CPU_THREAD_IS_WAITING THEN 1 ELSE 0)
    ELSE (IF state >= THREAD_WAKE_COUNT_CPU_THREAD_IS_WAITING THEN 1 ELSE 0)

\* state & ~THREAD_WAKE_COUNT_CPU_THREAD_IS_WAITING
GetThreadWakeCount(state) ==
  state - WaitingBit(state) * THREAD_WAKE_COUNT_CPU_THREAD_IS_WAITING

\* state & THREAD_WAKE_COUNT_CPU_THREAD_IS_WAITING
WaitingFlagOf(state) ==
  WaitingBit(state) * THREAD_WAKE_COUNT_CPU_THREAD_IS_WAITING

\* state | THREAD_WAKE_COUNT_CPU_THREAD_IS_WAITING
SetWaitingFlag(state) ==
  state + (1 - WaitingBit(state)) * THREAD_WAKE_COUNT_CPU_THREAD_IS_WAITING

VARIABLES
  m_command_fifo_data,        \* ring bytes, one cell per 4-byte word: <<command id, word index>>
  m_command_fifo_read_ptr,
  m_command_fifo_write_ptr,
  s_thread_wake_count,
  s_thread_wake_semaphore,
  s_thread_is_done_semaphore,
  s_shutdown_flag,
  s_run_idle_flag,
  started,                    \* m_gpu_thread.Joinable()
  prod,                       \* producer thread: position and locals
  cons,                       \* consumer thread: position and locals
  cmd_limit,                  \* environment: how many commands the producer issues
  cmds,                       \* history: slots handed out so far, [size, off]
  dispatched,                 \* history: what reached the dispatch switch: id, -id (slot of id
                              \*   no longer as written, or not published), 0 (bytes that are no header)
  out_of_bounds,              \* history: the producer wrote at or beyond COMMAND_QUEUE_SIZE
  g_gpu_device,               \* a graphics device exists
  s_render_api,
  s_gpu_backend,              \* NoBackend or [kind, initialized]
  s_requested_renderer,       \* a GPURenderer or "nullopt"
  s_open_flag,
  m_sync_semaphore,
  s_last_gpu_reset_time,
  s_requested_vsync,
  s_requested_allow_present_throttle,
  device_vsync,               \* <<mode, throttle>> the device was created with or set to
  host,                       \* environment: clock, faults left to inject, OSD messages, results
  s_settings_mutex,           \* the thread that owns the mutex, or "unlocked"
  s_layered_settings_interface, \* [present, list]: the string list of one key of the base layer
  accessor                    \* per thread: the Host accessor it is in and how far it got

vars == <<m_command_fifo_data, m_command_fifo_read_ptr, m_command_fifo_write_ptr,
          s_thread_wake_count, s_thread_wake_semaphore, s_thread_is_done_semaphore,
          s_shutdown_flag, s_run_idle_flag, started, prod, cons,
          cmd_limit, cmds, dispatched, out_of_bounds,
          g_gpu_device, s_render_api, s_gpu_backend, s_requested_renderer,
          s_open_flag, m_sync_semaphore, s_last_gpu_reset_time,
          s_requested_vsync, s_requested_allow_present_throttle, device_vsync, host,
          s_settings_mutex, s_layered_settings_interface, accessor>>

ring == <<m_command_fifo_data, m_command_fifo_read_ptr, m_command_fifo_write_ptr>>
wakestate == <<s_thread_wake_count, s_thread_wake_semaphore, s_thread_is_done_semaphore>>
flags == <<s_shutdown_flag, s_run_idle_flag, started>>
history == <<cmd_limit, cmds, dispatched, out_of_bounds>>
device == <<g_gpu_device, s_render_api, s_gpu_backend, s_requested_renderer, s_last_gpu_reset_time,
            device_vsync>>
startup == <<s_open_flag, m_sync_semaphore>>
requested_vsync == <<s_requested_vsync, s_requested_allow_present_throttle>>
settings == <<s_settings_mutex, s_layered_settings_interface, accessor>>
lifecycle == <<device, startup, host, requested_vsync, settings>>

\* host.cpp: the threads that call the Host setting accessors.
HostThreads == {"CPU", "GPU", "UI"}

\* host.cpp line 27-28: the mutex is free, the base layer is set and holds no
\* value for the key, no thread is inside an accessor.
SettingsAtStartup ==
  /\ s_settings_mutex = "unlocked"
  /\ s_layered_settings_interface = [present |-> FALSE, list |-> {}]
  /\ accessor = [t \in HostThreads |-> [pc |-> "idle", op |-> "none", value |-> "none",
                                        result |-> {}]]

\* GPURenderer values a caller may request, and g_gpu_settings.gpu_renderer.
GPURenderers == {"Software", "OpenGL"}
gpu_renderer == "Software"

\* Settings::GetRenderAPIForRenderer: the API of a hardware renderer, the
\* preferred API of the platform for the software renderer.
GetRenderAPIForRenderer(renderer) ==
  IF renderer = "OpenGL" THEN "OpenGL" ELSE "Vulkan"

\* GPUDevice::IsSameRenderAPI
IsSameRenderAPI(lhs, rhs) == lhs = rhs

\* s_gpu_backend: empty, or a backend of a kind, with the result of its Initialize()
\* (FALSE also when Initialize was never called).
NoBackend == [kind |-> "none", initialized |-> FALSE]
Backend(kind, initialized) == [kind |-> kind, initialized |-> initialized]

\* The environment: the timer value, how many failures (device creation, backend
\* initialization, device loss) it may still inject, the OSD messages posted,
\* what each ChangeBackend handler read (<<command id, requested renderer>>)
\* the value Start() returned last, what the last CreateDeviceOnThread
\* returned, how often Initialize() of a hardware backend returned false, and
\* whether a device was ever destroyed under a backend that still existed.
HostIdle ==
  [now |-> 1, faults |-> 0, osd |-> <<>>, handled |-> <<>>, start_result |-> "none",
   created |-> "created", init_failed |-> 0, orphaned |-> FALSE]

\* command, arg: the type handed to AllocateCommand (a command for the backend
\* unless the facade call says otherwise) and what the command carries.
ProdIdle == [pc |-> "idle", op |-> "none", size |-> 0, spin |-> FALSE, ret |-> "idle",
             command |-> "Backend", arg |-> "none"]

ConsLoop == [pc |-> "loop", read_ptr |-> 0, write_ptr |-> 0, allow_sleep |-> FALSE]

\* The statics after Start("Software") returned true: the consumer is at the
\* head of its loop.
Running ==
  /\ m_command_fifo_data = [k \in Words |-> EmptyCell]
  /\ m_command_fifo_read_ptr = 0
  /\ m_command_fifo_write_ptr = 0
  /\ s_thread_wake_count = 0
  /\ s_thread_wake_semaphore = 0
  /\ s_thread_is_done_semaphore = 0
  /\ s_shutdown_flag = FALSE
  /\ s_run_idle_flag = FALSE
  /\ started = TRUE
  /\ prod = ProdIdle
  /\ cons = ConsLoop
  /\ cmds = <<>>
  /\ dispatched = <<>>
  /\ out_of_bounds = FALSE
  /\ g_gpu_device = TRUE
  /\ s_render_api = GetRenderAPIForRenderer("Software")
  /\ s_gpu_backend = Backend("software", TRUE)
  /\ s_requested_renderer = "Software"
  /\ s_open_flag = TRUE
  /\ m_sync_semaphore = 0
  /\ s_last_gpu_reset_time = 0
  /\ s_requested_vsync = "Disabled"
  /\ s_requested_allow_present_throttle = FALSE
  /\ SettingsAtStartup
  /\ device_vsync = <<"Disabled", FALSE>>

\* State after Start("Software") returned true, nothing fails later.
Started == Running /\ host = HostIdle

Init == Started /\ cmd_limit = MaxCmds

\* Number of commands published so far (fetch_add on the write pointer done).
Published == IF prod.pc = "push" THEN Len(cmds) - 1 ELSE Len(cmds)

\* Return of a producer-side call to the position `ret`.
ProdReturn(p, ret) ==
  IF ret = "idle" THEN ProdIdle ELSE [p EXCEPT !.pc = ret, !.ret = "idle"]

\* Bytes [off, off + size) of the ring written by command `id`.
WriteSlot(data, off, size, id) ==
  [k \in Words |-> IF 4 * k >= off /\ 4 * k < off + size
                     THEN <<id, ((4 * k) - off) \div 4>>
                     ELSE data[k]]

\* ------------------------------------------------------- device lifecycle
\* The functions that run on the GPU thread only are operators on the record of
\* the state they touch; `panic` is set by Panic() and by a failing Assert(),
\* `null_call` by a member call through an empty s_gpu_backend or g_gpu_device.
DeviceState ==
  [g_gpu_device |-> g_gpu_device, s_render_api |-> s_render_api,
   s_gpu_backend |-> s_gpu_backend, s_requested_renderer |-> s_requested_renderer,
   s_last_gpu_reset_time |-> s_last_gpu_reset_time, device_vsync |-> device_vsync,
   osd |-> host.osd,
   handled |-> host.handled, created |-> host.created,
   init_failed |-> host.init_failed, orphaned |-> host.orphaned,
   panic |-> FALSE, null_call |-> FALSE]

\* CreateDeviceOnThread that leaves the render API alone when it fails.
CreateDeviceKeepingAPI(d, api, ok) ==
  IF ok THEN [d EXCEPT !.g_gpu_device = TRUE, !.s_render_api = api, !.created = "created",
                       !.device_vsync = <<s_requested_vsync, s_requested_allow_present_throttle>>]
        ELSE [d EXCEPT !.g_gpu_device = FALSE, !.created = "failed"]

\* line 500-575; `ok`: device and UI were created; `created` keeps the result
CreateDeviceOnThread(d, api, ok) ==
  IF ok THEN [d EXCEPT !.g_gpu_device = TRUE, !.s_render_api = api, !.created = "created",
                       !.device_vsync = <<s_requested_vsync, s_requested_allow_present_throttle>>]
        ELSE [d EXCEPT !.g_gpu_device = FALSE, !.s_render_api = "None", !.created = "failed"]

\* line 577-589; `orphaned` records a backend that outlives its device
DestroyDeviceOnThread(d) ==
  [d EXCEPT !.g_gpu_device = FALSE,
            !.orphaned = @ \/ (d.g_gpu_device /\ d.s_gpu_backend # NoBackend)]

\* DestroyGPUBackendOnThread that leaves the backend alone.
KeepGPUBackendOnThread(d) == d

\* line 720-729
DestroyGPUBackendOnThread(d) == [d EXCEPT !.s_gpu_backend = NoBackend]

\* CreateGPUBackendOnThread that keeps the hardware backend whose Initialize failed.
CreateGPUBackendNoFallback(d, ok) ==
  IF d.s_gpu_backend # NoBackend THEN [d EXCEPT !.panic = TRUE]
  ELSE IF d.s_requested_renderer = "nullopt" THEN d
  ELSE LET is_hardware == d.s_requested_renderer # "Software"
           created == Backend(IF is_hardware THEN "hardware" ELSE "software", ok)
       IN IF ok \/ ~is_hardware
            THEN [d EXCEPT !.s_gpu_backend = created]
            ELSE [d EXCEPT !.osd = Append(@, "GPUBackendCreationFailed"),
                           !.init_failed = @ + 1,
                           !.s_gpu_backend = created]

\* line 628-662; `ok`: the result of s_gpu_backend->Initialize()
CreateGPUBackendOnThread(d, ok) ==
  IF d.s_gpu_backend # NoBackend THEN [d EXCEPT !.panic = TRUE]
  ELSE IF d.s_requested_renderer = "nullopt" THEN d
  ELSE LET is_hardware == d.s_requested_renderer # "Software"
           created == Backend(IF is_hardware THEN "hardware" ELSE "software", ok)
       IN IF ok \/ ~is_hardware
            THEN [d EXCEPT !.s_gpu_backend = created]
            ELSE [d EXCEPT !.osd = Append(@, "GPUBackendCreationFailed"),
                           !.init_failed = @ + 1,
                           !.s_requested_renderer = "Software",
                           !.s_gpu_backend = Backend("software", FALSE)]

\* s_requested_renderer.value_or(g_gpu_settings.gpu_renderer)
RequestedOrDefault(d) ==
  IF d.s_requested_renderer = "nullopt" THEN gpu_renderer ELSE d.s_requested_renderer

\* ChangeGPUBackendOnThread that does not go back to the old API when the
\* device for the new one cannot be created.
ChangeGPUBackendNoRevert(d, o) ==
  IF d.s_requested_renderer = "nullopt" THEN DestroyGPUBackendOnThread(d)
  ELSE IF d.s_gpu_backend = NoBackend THEN [d EXCEPT !.null_call = TRUE]
  ELSE IF d.s_requested_renderer = "Software"
    THEN CreateGPUBackendOnThread(DestroyGPUBackendOnThread(d), o[3])
  ELSE
    LET expected_api == GetRenderAPIForRenderer(d.s_requested_renderer)
        destroyed == DestroyGPUBackendOnThread(d)
        switched == CreateDeviceOnThread(DestroyDeviceOnThread(destroyed), expected_api, o[1])
    IN IF IsSameRenderAPI(d.s_render_api, expected_api)
         THEN CreateGPUBackendOnThread(destroyed, o[3])
         ELSE IF o[1] THEN CreateGPUBackendOnThread(switched, o[3])
         ELSE CreateGPUBackendOnThread(
                [switched EXCEPT !.osd = Append(@, "DeviceSwitchFailed")], o[3])

\* line 664-718; o[1], o[2]: the device for the new and for the old API was
\* created, o[3]: the backend initialized
ChangeGPUBackendOnThread(d, o) ==
  IF d.s_requested_renderer = "nullopt" THEN DestroyGPUBackendOnThread(d)
  ELSE IF d.s_gpu_backend = NoBackend THEN [d EXCEPT !.null_call = TRUE]
  ELSE IF d.s_requested_renderer = "Software"
    THEN CreateGPUBackendOnThread(DestroyGPUBackendOnThread(d), o[3])
  ELSE
    LET current_api == d.s_render_api
        expected_api == GetRenderAPIForRenderer(d.s_requested_renderer)
        destroyed == DestroyGPUBackendOnThread(d)
        switched == CreateDeviceOnThread(DestroyDeviceOnThread(destroyed), expected_api, o[1])
        warned == [switched EXCEPT !.osd = Append(@, "DeviceSwitchFailed")]
        reverted == CreateDeviceOnThread(warned, current_api, o[2])
    IN IF IsSameRenderAPI(current_api, expected_api)
         THEN CreateGPUBackendOnThread(destroyed, o[3])
         ELSE IF o[1] THEN CreateGPUBackendOnThread(switched, o[3])
         ELSE IF o[2] THEN CreateGPUBackendOnThread(reverted, o[3])
         ELSE [reverted EXCEPT !.panic = TRUE]

\* HandleGPUDeviceLost without the test s_last_gpu_reset_time != 0.
HandleGPUDeviceLostNoFirst(d, current_time, device_ok, init_ok) ==
  IF (current_time - d.s_last_gpu_reset_time) < MIN_TIME_BETWEEN_RESETS
    THEN [d EXCEPT !.panic = TRUE]
    ELSE [CreateGPUBackendOnThread(
            CreateDeviceOnThread(DestroyDeviceOnThread(DestroyGPUBackendOnThread(d)),
                                 GetRenderAPIForRenderer(RequestedOrDefault(d)), device_ok),
            init_ok)
          EXCEPT !.s_last_gpu_reset_time = current_time,
                 !.osd = Append(@, "HostGPUDeviceLost"),
                 !.panic = ~device_ok]

\* line 591-626; device_ok: the device was recreated, init_ok: the backend initialized
HandleGPUDeviceLost(d, current_time, device_ok, init_ok) ==
  IF /\ d.s_last_gpu_reset_time # 0
     /\ (current_time - d.s_last_gpu_reset_time) < MIN_TIME_BETWEEN_RESETS
    THEN [d EXCEPT !.panic = TRUE]
  ELSE
    LET stamped == [d EXCEPT !.s_last_gpu_reset_time = current_time]
        destroyed == DestroyDeviceOnThread(DestroyGPUBackendOnThread(stamped))
        api == GetRenderAPIForRenderer(RequestedOrDefault(destroyed))
        recreated == CreateDeviceOnThread(destroyed, api, device_ok)
        created == CreateGPUBackendOnThread(recreated, init_ok)
    IN IF ~device_ok
         THEN [recreated EXCEPT !.panic = TRUE]
         ELSE [created EXCEPT !.osd = Append(@, "HostGPUDeviceLost")]

\* line 874-941, Internal::PresentFrame; o[1]: the present did not lose the
\* device (o[2], o[3] are outcomes of the recovery, used only when it did)
PresentFrame(d, current_time, o) ==
  IF ~d.g_gpu_device THEN [d EXCEPT !.null_call = TRUE]
  ELSE IF o[1] THEN d
  ELSE HandleGPUDeviceLost(d, current_time, o[2], o[3])

\* Where the GPU thread goes on after a handler that left the state `d`.
AfterHandler(d, c) ==
  IF d.panic THEN [c EXCEPT !.pc = "aborted"]
  ELSE IF d.null_call THEN [c EXCEPT !.pc = "crashed"]
  ELSE c

\* The GPU thread stores the state record `d`; `used` failures were injected.
StoreDeviceState(d, used) ==
  /\ g_gpu_device' = d.g_gpu_device
  /\ s_render_api' = d.s_render_api
  /\ s_gpu_backend' = d.s_gpu_backend
  /\ s_requested_renderer' = d.s_requested_renderer
  /\ s_last_gpu_reset_time' = d.s_last_gpu_reset_time
  /\ device_vsync' = d.device_vsync
  /\ host' = [host EXCEPT !.osd = d.osd, !.handled = d.handled, !.created = d.created,
                          !.init_failed = d.init_failed, !.orphaned = d.orphaned,
                          !.faults = @ - used]

\* The outcomes the environment may give to `n` operations that can fail:
\* sequences of n booleans with no more failures than it has left to inject.
RECURSIVE Failures(_)
Failures(outcomes) ==
  IF outcomes = <<>> THEN 0
  ELSE (IF Head(outcomes) THEN 0 ELSE 1) + Failures(Tail(outcomes))

Outcomes(n) ==
  {o \in [1 .. n -> BOOLEAN] : Failures(o) <= host.faults}

\* ------------------------------------------------------------ facade calls
CallPushCommand(sz) ==
  /\ prod.pc = "idle" /\ started /\ ~s_shutdown_flag
  /\ Len(cmds) < cmd_limit
  /\ prod' = [ProdIdle EXCEPT !.pc = "alloc", !.op = "PushCommand",
                              !.size = AlignUpPow2(sz, 4)]
  /\ UNCHANGED <<lifecycle, ring, wakestate, flags, cons, history>>

CallPushCommandAndWakeThread(sz) ==
  /\ prod.pc = "idle" /\ started /\ ~s_shutdown_flag
  /\ Len(cmds) < cmd_limit
  /\ prod' = [ProdIdle EXCEPT !.pc = "alloc", !.op = "PushCommandAndWakeThread",
                              !.size = AlignUpPow2(sz, 4)]
  /\ UNCHANGED <<lifecycle, ring, wakestate, flags, cons, history>>

CallPushCommandAndSync(sz, spin) ==
  /\ prod.pc = "idle" /\ started /\ ~s_shutdown_flag
  /\ Len(cmds) < cmd_limit
  /\ prod' = [ProdIdle EXCEPT !.pc = "alloc", !.op = "PushCommandAndSync",
                              !.size = AlignUpPow2(sz, 4), !.spin = spin]
  /\ UNCHANGED <<lifecycle, ring, wakestate, flags, cons, history>>

\* ------------------------------------------------------- AllocateCommand
\* line 289-292: the slot at write_ptr is handed out; header by AllocateCommand,
\* payload by its caller before the publish.
AllocateCommand_Return ==
  LET id == Len(cmds) + 1
      off == m_command_fifo_write_ptr
  IN /\ m_command_fifo_data' = WriteSlot(m_command_fifo_data, off, prod.size, id)
     /\ cmds' = Append(cmds, [size |-> prod.size, off |-> off,
                               command |-> prod.command, arg |-> prod.arg])
     /\ out_of_bounds' = (out_of_bounds \/ off + prod.size > COMMAND_QUEUE_SIZE)
     /\ prod' = [prod EXCEPT !.pc = "push"]
     /\ UNCHANGED <<lifecycle, m_command_fifo_read_ptr, m_command_fifo_write_ptr, wakestate, flags, cons,
                    cmd_limit, dispatched>>

\* line 267: the test of the busy-wait loop
MustWait(available_size, size) ==
  available_size < (size + sizeofGPUBackendCommandType)

\* line 267-269, 289: with available_size bytes free, wait (poke the consumer) or return the slot
AllocateCommand_WaitOrReturn(available_size) ==
  IF MustWait(available_size, prod.size)
    THEN /\ prod' = [prod EXCEPT !.pc = "wake", !.ret = "alloc_reload"]
         /\ UNCHANGED <<lifecycle, ring, wakestate, flags, cons, history>>
    ELSE AllocateCommand_Return

\* line 262-267: read_ptr > write_ptr
AllocateCommand_Behind ==
  /\ prod.pc = "alloc"
  /\ m_command_fifo_read_ptr > m_command_fifo_write_ptr
  /\ AllocateCommand_WaitOrReturn(m_command_fifo_read_ptr - m_command_fifo_write_ptr)

\* line 277: the slot plus a later Wraparound header does not fit before the end
MustWrap(available_size, size) ==
  (size + sizeofGPUBackendCommand) > available_size

\* line 274-286: Wraparound header at write_ptr, then write = 0
AllocateCommand_Wraparound ==
  /\ prod.pc = "alloc"
  /\ m_command_fifo_read_ptr <= m_command_fifo_write_ptr
  /\ LET available_size == COMMAND_QUEUE_SIZE - m_command_fifo_write_ptr
     IN /\ MustWrap(available_size, prod.size)
        /\ m_command_fifo_data' = WriteSlot(m_command_fifo_data, m_command_fifo_write_ptr,
                                            sizeofGPUBackendCommand, WrapId)
        /\ out_of_bounds' = (out_of_bounds \/ sizeofGPUBackendCommand > available_size)
  /\ m_command_fifo_write_ptr' = 0
  /\ UNCHANGED <<lifecycle, m_command_fifo_read_ptr, wakestate, flags, prod, cons,
                 cmd_limit, cmds, dispatched>>

\* line 274-277, 289-292: the slot fits before the end
AllocateCommand_Fits ==
  /\ prod.pc = "alloc"
  /\ m_command_fifo_read_ptr <= m_command_fifo_write_ptr
  /\ ~MustWrap(COMMAND_QUEUE_SIZE - m_command_fifo_write_ptr, prod.size)
  /\ AllocateCommand_Return

\* line 271
ReloadedAvailableSize(read_ptr, write_ptr) ==
  IF read_ptr > write_ptr THEN read_ptr - write_ptr ELSE COMMAND_QUEUE_SIZE - write_ptr

\* line 270-271, 267
AllocateCommand_Reload ==
  /\ prod.pc = "alloc_reload"
  /\ AllocateCommand_WaitOrReturn(
       ReloadedAvailableSize(m_command_fifo_read_ptr, m_command_fifo_write_ptr))

\* ------------------------------------------------------- PushCommand*
\* line 305, 314, 322: fetch_add on the write pointer
PushCommand_Publish ==
  /\ prod.pc = "push"
  /\ m_command_fifo_write_ptr' = m_command_fifo_write_ptr + prod.size
  /\ prod' = CASE prod.op = "PushCommand" -> [prod EXCEPT !.pc = "pending"]
               [] prod.op = "PushCommandAndWakeThread" -> [prod EXCEPT !.pc = "wake", !.ret = "idle"]
               [] OTHER -> [prod EXCEPT !.pc = "wake", !.ret = "sync"]
  /\ UNCHANGED <<lifecycle, m_command_fifo_data, m_command_fifo_read_ptr, wakestate, flags, cons, history>>

GetPendingCommandSize ==
  IF m_command_fifo_write_ptr >= m_command_fifo_read_ptr
    THEN m_command_fifo_write_ptr - m_command_fifo_read_ptr
    ELSE COMMAND_QUEUE_SIZE - m_command_fifo_read_ptr + m_command_fifo_write_ptr

\* line 308-309
PushCommand_CheckPending ==
  /\ prod.pc = "pending"
  /\ prod' = IF GetPendingCommandSize >= THRESHOLD_TO_WAKE_GPU
               THEN [prod EXCEPT !.pc = "wake", !.ret = "idle"]
               ELSE ProdIdle
  /\ UNCHANGED <<lifecycle, ring, wakestate, flags, cons, history>>

\* ------------------------------------------------------- WakeGPUThread
\* fetch_add(2); the pending-work count stops growing at 2 * MaxWakeCount
\* (only its sign is ever tested, and SleepGPUThread clears it).
FetchAdd2(state) ==
  IF GetThreadWakeCount(state) >= 2 * MaxWakeCount THEN state ELSE state + 2

\* line 338
WakeGPUThread_FetchAdd ==
  /\ prod.pc = "wake"
  /\ s_thread_wake_count' = FetchAdd2(s_thread_wake_count)
  /\ prod' = IF s_thread_wake_count < 0
               THEN [prod EXCEPT !.pc = "wake_post"]
               ELSE ProdReturn(prod, prod.ret)
  /\ UNCHANGED <<lifecycle, ring, s_thread_wake_semaphore, s_thread_is_done_semaphore, flags, cons, history>>

\* line 339
WakeGPUThread_Post ==
  /\ prod.pc = "wake_post"
  /\ s_thread_wake_semaphore < MaxSemaphore
  /\ s_thread_wake_semaphore' = s_thread_wake_semaphore + 1
  /\ prod' = ProdReturn(prod, prod.ret)
  /\ UNCHANGED <<lifecycle, ring, s_thread_wake_count, s_thread_is_done_semaphore, flags, cons, history>>

\* ------------------------------------------------------- SyncGPUThread
\* line 344-353: `waited` is never advanced, the loop ends only through the return
SyncGPUThread_Spin ==
  /\ prod.pc = "sync" /\ prod.spin
  /\ prod' = IF GetThreadWakeCount(s_thread_wake_count) < 0 THEN ProdIdle ELSE prod
  /\ UNCHANGED <<lifecycle, ring, wakestate, flags, cons, history>>

\* line 356-364
SyncGPUThread_CAS ==
  /\ prod.pc = "sync" /\ ~prod.spin
  /\ IF GetThreadWakeCount(s_thread_wake_count) < 0
       THEN /\ prod' = ProdIdle
            /\ UNCHANGED s_thread_wake_count
       ELSE /\ s_thread_wake_count' = SetWaitingFlag(s_thread_wake_count)
            /\ prod' = [prod EXCEPT !.pc = "sync_wait"]
  /\ UNCHANGED <<lifecycle, ring, s_thread_wake_semaphore, s_thread_is_done_semaphore, flags, cons, history>>

\* line 365
SyncGPUThread_Wait ==
  /\ prod.pc = "sync_wait"
  /\ s_thread_is_done_semaphore > 0
  /\ s_thread_is_done_semaphore' = s_thread_is_done_semaphore - 1
  /\ prod' = ProdIdle
  /\ UNCHANGED <<lifecycle, ring, s_thread_wake_count, s_thread_wake_semaphore, flags, cons, history>>

\* ------------------------------------------------------- SetRunIdle / Shutdown
\* line 943-947
SetRunIdle(enabled) ==
  /\ prod.pc = "idle" /\ started /\ ~s_shutdown_flag
  /\ s_run_idle_flag' = enabled
  /\ UNCHANGED <<lifecycle, ring, wakestate, s_shutdown_flag, started, prod, cons, history>>

\* line 243-250
Shutdown ==
  /\ prod.pc = "idle"
  /\ IF ~started
       THEN UNCHANGED <<s_shutdown_flag, prod>>
       ELSE /\ ~s_shutdown_flag
            /\ s_shutdown_flag' = TRUE
            /\ prod' = [ProdIdle EXCEPT !.pc = "wake", !.op = "Shutdown", !.ret = "join"]
  /\ s_requested_renderer' = IF started THEN "nullopt" ELSE s_requested_renderer
  /\ UNCHANGED <<g_gpu_device, s_render_api, s_gpu_backend, s_last_gpu_reset_time, device_vsync,
                 requested_vsync, settings, startup, host>>
  /\ UNCHANGED <<ring, wakestate, s_run_idle_flag, started, cons, history>>

\* line 251
Shutdown_Join ==
  /\ prod.pc = "join"
  /\ cons.pc = "done"
  /\ started' = FALSE
  /\ prod' = ProdIdle
  /\ UNCHANGED <<lifecycle, ring, wakestate, s_shutdown_flag, s_run_idle_flag, cons, history>>

\* ------------------------------------------------------- Start
\* line 118-136: Assert(!IsStarted()); the thread is created
CallStart(renderer) ==
  /\ prod.pc = "idle" /\ ~started
  /\ s_requested_renderer' = renderer
  /\ s_shutdown_flag' = FALSE
  /\ s_run_idle_flag' = FALSE
  /\ started' = TRUE
  /\ cons' = [ConsLoop EXCEPT !.pc = "startup"]
  /\ prod' = [ProdIdle EXCEPT !.pc = "start_wait", !.op = "Start"]
  /\ host' = [host EXCEPT !.start_result = "none", !.created = "none"]
  /\ UNCHANGED <<g_gpu_device, s_render_api, s_gpu_backend, s_last_gpu_reset_time, device_vsync,
                 requested_vsync, settings, startup>>
  /\ UNCHANGED <<ring, wakestate, history>>

\* line 137-150: m_sync_semaphore.Wait(), then the open flag decides
Start_Wait ==
  /\ prod.pc = "start_wait"
  /\ m_sync_semaphore > 0
  /\ m_sync_semaphore' = m_sync_semaphore - 1
  /\ IF s_open_flag
       THEN /\ prod' = ProdIdle
            /\ host' = [host EXCEPT !.start_result = "true"]
       ELSE /\ prod' = [prod EXCEPT !.pc = "start_join"]
            /\ UNCHANGED host
  /\ UNCHANGED <<device, requested_vsync, settings, s_open_flag, ring, wakestate, flags, cons, history>>

\* line 145-146: m_gpu_thread.Join(); return false
Start_Join ==
  /\ prod.pc = "start_join"
  /\ cons.pc = "done"
  /\ started' = FALSE
  /\ prod' = ProdIdle
  /\ host' = [host EXCEPT !.start_result = "false"]
  /\ UNCHANGED <<device, requested_vsync, settings, startup, ring, wakestate, s_shutdown_flag,
                 s_run_idle_flag, cons, history>>

\* line 404-416: the head of RunGPULoop, up to the post of the startup semaphore
RunGPULoop_Startup ==
  /\ cons.pc = "startup"
  /\ \E o \in Outcomes(2) :
       LET api == GetRenderAPIForRenderer(RequestedOrDefault(DeviceState))
           opened == CreateDeviceOnThread(DeviceState, api, o[1])
           created == CreateGPUBackendOnThread(opened, o[2])
       IN IF ~o[1]
            THEN /\ o[2]
                 /\ StoreDeviceState(opened, 1)
                 /\ s_open_flag' = FALSE
                 /\ cons' = [ConsLoop EXCEPT !.pc = "done"]
            ELSE /\ StoreDeviceState(created, Failures(o))
                 /\ s_open_flag' = TRUE
                 /\ cons' = IF created.panic THEN [ConsLoop EXCEPT !.pc = "aborted"] ELSE ConsLoop
  /\ m_sync_semaphore' = m_sync_semaphore + 1
  /\ UNCHANGED <<requested_vsync, settings, ring, wakestate, flags, prod, history>>

\* ------------------------------------------------------- CreateGPUBackend / SwitchGPUBackend
\* line 202-207: SwitchGPUBackend(renderer, false)
CallSwitchGPUBackend(renderer) ==
  /\ prod.pc = "idle" /\ started /\ ~s_shutdown_flag
  /\ Len(cmds) < cmd_limit
  /\ s_requested_renderer' = renderer
  /\ prod' = [ProdIdle EXCEPT !.pc = "alloc", !.op = "PushCommandAndSync",
                              !.size = AlignUpPow2(sizeofGPUThreadCommand, 4),
                              !.command = "ChangeBackend", !.arg = renderer]
  /\ UNCHANGED <<g_gpu_device, s_render_api, s_gpu_backend, s_last_gpu_reset_time, device_vsync,
                 requested_vsync, settings, startup, host>>
  /\ UNCHANGED <<ring, wakestate, flags, cons, history>>

\* line 819-822, 760-767: UpdateDisplayWindow() is RunOnThread(thunk)
CallUpdateDisplayWindow ==
  /\ prod.pc = "idle" /\ started /\ ~s_shutdown_flag
  /\ Len(cmds) < cmd_limit
  /\ prod' = [ProdIdle EXCEPT !.pc = "alloc", !.op = "PushCommandAndWakeThread",
                              !.size = AlignUpPow2(sizeofGPUThreadAsyncCallCommand, 4),
                              !.command = "UpdateDisplayWindow"]
  /\ UNCHANGED <<lifecycle, ring, wakestate, flags, cons, history>>

\* line 185-198: the same on a started thread, Start(renderer) otherwise
CallCreateGPUBackend(renderer) ==
  IF started THEN CallSwitchGPUBackend(renderer) ELSE CallStart(renderer)

\* Common::Timer::GetCurrentValue() advances.
Tick ==
  /\ host.now + TickSeconds <= 1 + MaxTicks * TickSeconds
  /\ host' = [host EXCEPT !.now = @ + TickSeconds]
  /\ UNCHANGED <<device, requested_vsync, settings, startup, ring, wakestate, flags, prod, cons, history>>

\* ------------------------------------------------------- SleepGPUThread
\* line 370: SleepGPUThread is entered (the DebugAssert reads the wake count)
SleepGPUThread_Enter ==
  /\ cons.pc = "sleep_enter"
  /\ cons' = [cons EXCEPT !.pc = "sleep_cas"]
  /\ UNCHANGED <<lifecycle, ring, wakestate, flags, prod, history>>

\* new_state of line 379-380
SleepNewState(old_state) ==
  IF GetThreadWakeCount(old_state) > 0
    THEN WaitingFlagOf(old_state)
    ELSE THREAD_WAKE_COUNT_SLEEPING

\* line 389: the producer is to be woken
MustPostDone(old_state) == WaitingFlagOf(old_state) # 0

\* line 375-396: the compare-exchange loop and the decision that follows it
SleepGPUThread_CAS ==
  /\ cons.pc = "sleep_cas"
  /\ LET old_state == s_thread_wake_count
     IN /\ s_thread_wake_count' = SleepNewState(old_state)
        /\ cons' = IF GetThreadWakeCount(old_state) > 0
                     THEN ConsLoop
                     ELSE IF MustPostDone(old_state)
                            THEN [cons EXCEPT !.pc = "sleep_post"]
                            ELSE IF cons.allow_sleep
                                   THEN [cons EXCEPT !.pc = "sleep_wait"]
                                   ELSE [cons EXCEPT !.pc = "present"]
  /\ UNCHANGED <<lifecycle, ring, s_thread_wake_semaphore, s_thread_is_done_semaphore, flags, prod, history>>

\* line 389-390
SleepGPUThread_PostDone ==
  /\ cons.pc = "sleep_post"
  /\ s_thread_is_done_semaphore < MaxSemaphore
  /\ s_thread_is_done_semaphore' = s_thread_is_done_semaphore + 1
  /\ cons' = IF cons.allow_sleep
               THEN [cons EXCEPT !.pc = "sleep_wait"]
               ELSE [cons EXCEPT !.pc = "present"]
  /\ UNCHANGED <<lifecycle, ring, s_thread_wake_count, s_thread_wake_semaphore, flags, prod, history>>

\* line 393-394
SleepGPUThread_Wait ==
  /\ cons.pc = "sleep_wait"
  /\ s_thread_wake_semaphore > 0
  /\ s_thread_wake_semaphore' = s_thread_wake_semaphore - 1
  /\ cons' = [cons EXCEPT !.pc = "sleep_cas"]
  /\ UNCHANGED <<lifecycle, ring, s_thread_wake_count, s_thread_is_done_semaphore, flags, prod, history>>

\* ------------------------------------------------------- RunGPULoop
\* line 443
BatchEnd(write_ptr, read_ptr) ==
  IF write_ptr < read_ptr THEN COMMAND_QUEUE_SIZE ELSE write_ptr

\* line 420-422, 443
RunGPULoop_LoadPointers ==
  /\ cons.pc = "loop"
  /\ LET write_ptr == m_command_fifo_write_ptr
         read_ptr == m_command_fifo_read_ptr
     IN cons' = IF read_ptr = write_ptr
                  THEN [cons EXCEPT !.pc = "empty", !.read_ptr = read_ptr, !.write_ptr = write_ptr]
                  ELSE [cons EXCEPT !.pc = "batch", !.read_ptr = read_ptr,
                                    !.write_ptr = BatchEnd(write_ptr, read_ptr)]
  /\ UNCHANGED <<lifecycle, ring, wakestate, flags, prod, history>>

\* line 424-428
RunGPULoop_Empty ==
  /\ cons.pc = "empty"
  /\ cons' = IF s_shutdown_flag
               THEN [cons EXCEPT !.pc = "exit"]
               ELSE [cons EXCEPT !.pc = "sleep_enter", !.allow_sleep = ~s_run_idle_flag]
  /\ UNCHANGED <<lifecycle, ring, wakestate, flags, prod, history>>

\* line 435-439: Internal::PresentFrame(false, 0)
RunGPULoop_PresentIdle ==
  /\ cons.pc = "present"
  /\ \E o \in Outcomes(3) :
       LET presented == PresentFrame(DeviceState, host.now, o)
       IN /\ o[1] => (o[2] /\ o[3])
          /\ StoreDeviceState(presented, Failures(o))
          /\ cons' = AfterHandler(presented, ConsLoop)
  /\ UNCHANGED <<requested_vsync, settings, startup, ring, wakestate, flags, prod, history>>

\* What the consumer finds at its cursor.
IsCommandHeader(cell) == cell[2] = 0 /\ cell[1] >= 1 /\ cell[1] <= Len(cmds)
IsWraparoundHeader(cell) == cell = <<WrapId, 0>>

\* The slot of command `id` still holds, at `off`, every byte its producer wrote.
SlotIntact(data, off, id) ==
  /\ cmds[id].off = off
  /\ \A k \in Words : (4 * k >= off /\ 4 * k < off + cmds[id].size)
                         => data[k] = <<id, ((4 * k) - off) \div 4>>

\* line 446-448, 483-488: one command is read and handed to the backend (a
\* thread that dispatches the same slots again and again is followed for
\* 3 * cmd_limit dispatches);
\* DebugAssert(s_gpu_backend) checks nothing, s_gpu_backend->HandleCommand(cmd)
\* is a call through the pointer
RunGPULoop_Dispatch ==
  /\ cons.pc = "batch"
  /\ cons.read_ptr < cons.write_ptr
  /\ LET cell == m_command_fifo_data[cons.read_ptr \div 4]
         id == cell[1]
         size == cmds[id].size
     IN /\ IsCommandHeader(cell)
        /\ cmds[id].command = "Backend"
        /\ Len(dispatched) < 3 * cmd_limit
        /\ IF s_gpu_backend = NoBackend
             THEN /\ cons' = [cons EXCEPT !.pc = "crashed", !.read_ptr = cons.read_ptr + size]
                  /\ UNCHANGED dispatched
             ELSE /\ dispatched' = Append(dispatched,
                                          IF id <= Published /\ SlotIntact(m_command_fifo_data, cons.read_ptr, id)
                                            THEN id ELSE -id)
                  /\ cons' = [cons EXCEPT !.read_ptr = cons.read_ptr + size]
  /\ UNCHANGED <<lifecycle, ring, wakestate, flags, prod, cmd_limit, cmds, out_of_bounds>>

\* line 446-448, 471-475: a ChangeBackend command is read and handled
RunGPULoop_DispatchChangeBackend ==
  /\ cons.pc = "batch"
  /\ cons.read_ptr < cons.write_ptr
  /\ LET cell == m_command_fifo_data[cons.read_ptr \div 4]
         id == cell[1]
     IN /\ IsCommandHeader(cell)
        /\ cmds[id].command = "ChangeBackend"
        /\ dispatched' = Append(dispatched,
                                IF id <= Published /\ SlotIntact(m_command_fifo_data, cons.read_ptr, id)
                                  THEN id ELSE -id)
        /\ \E o \in Outcomes(3) :
             LET read == [DeviceState EXCEPT !.handled = Append(@, <<id, s_requested_renderer>>)]
                 changed == ChangeGPUBackendOnThread(read, o)
             IN /\ StoreDeviceState(changed, Failures(o))
                /\ cons' = AfterHandler(changed, [cons EXCEPT !.read_ptr = cons.read_ptr + cmds[id].size])
  /\ UNCHANGED <<requested_vsync, settings, startup, ring, wakestate, flags, prod, cmd_limit, cmds,
                 out_of_bounds>>

\* line 462-468, 819-848, 863-872: the AsyncCall thunk of UpdateDisplayWindow
\* runs; with a valid, paused system it calls PresentCurrentFrame(), which
\* returns at once when running idle and calls RunOnThread otherwise (the
\* system is paused only while the command count is below its cap).  The
\* thunk RunOnThread enqueued from PresentCurrentFrame presents the frame.
RunGPULoop_DispatchAsyncCall ==
  /\ cons.pc = "batch"
  /\ cons.read_ptr < cons.write_ptr
  /\ LET cell == m_command_fifo_data[cons.read_ptr \div 4]
         id == cell[1]
         next == [cons EXCEPT !.read_ptr = cons.read_ptr + cmds[id].size]
     IN /\ IsCommandHeader(cell)
        /\ cmds[id].command \in {"UpdateDisplayWindow", "PresentFrame"}
        /\ Len(dispatched) < 3 * cmd_limit
        /\ dispatched' = Append(dispatched,
                                IF id <= Published /\ SlotIntact(m_command_fifo_data, cons.read_ptr, id)
                                  THEN id ELSE -id)
        /\ IF cmds[id].command = "PresentFrame"
             THEN \E o \in Outcomes(3) :
                    LET presented == PresentFrame(DeviceState, host.now, o)
                    IN /\ o[1] => (o[2] /\ o[3])
                       /\ StoreDeviceState(presented, Failures(o))
                       /\ cons' = AfterHandler(presented, next)
             ELSE /\ UNCHANGED <<device, host>>
                  /\ \E paused \in {FALSE, Len(cmds) < 2 * cmd_limit} :
                       cons' = IF g_gpu_device /\ paused /\ ~s_run_idle_flag
                                 THEN [next EXCEPT !.pc = "thunk_alloc"]
                                 ELSE next
  /\ UNCHANGED <<requested_vsync, settings, startup, ring, wakestate, flags, prod, cmd_limit, cmds,
                 out_of_bounds>>

\* ------------------------------------------------------------- SetVSync
GPUVSyncModes == {"Disabled", "FIFO"}

\* What an UpdateVSync command stands for in the history: the arguments of the
\* SetVSync call that enqueued it (the command itself carries no payload).
VSyncRequest(mode, allow_present_throttle) ==
  IF allow_present_throttle THEN mode \o "+throttle" ELSE mode

\* A handler that hands only the mode to the device.
UpdateVSyncModeOnly(d) ==
  IF ~d.g_gpu_device THEN [d EXCEPT !.null_call = TRUE]
  ELSE [d EXCEPT !.device_vsync = <<s_requested_vsync, d.device_vsync[2]>>]

\* line 753-758: g_gpu_device->SetVSyncMode(requested mode, requested throttle),
\* a call through the pointer
UpdateVSyncOnThread(d) ==
  IF ~d.g_gpu_device THEN [d EXCEPT !.null_call = TRUE]
  ELSE [d EXCEPT !.device_vsync = <<s_requested_vsync, s_requested_allow_present_throttle>>]

\* line 850-857: Assert(IsStarted()); a call with the values already requested
\* returns at once, any other stores the mode
CallSetVSync(mode, allow_present_throttle) ==
  /\ prod.pc = "idle" /\ started /\ ~s_shutdown_flag
  /\ Len(cmds) < cmd_limit
  /\ IF s_requested_vsync = mode /\ s_requested_allow_present_throttle = allow_present_throttle
       THEN UNCHANGED <<s_requested_vsync, prod>>
       ELSE /\ s_requested_vsync' = mode
            /\ prod' = [ProdIdle EXCEPT !.pc = "vsync_store", !.op = "PushCommandAndWakeThread",
                                        !.size = AlignUpPow2(sizeofGPUThreadCommand, 4),
                                        !.command = "UpdateVSync",
                                        !.arg = VSyncRequest(mode, allow_present_throttle)]
  /\ UNCHANGED <<device, startup, host, settings, s_requested_allow_present_throttle, ring, wakestate,
                 flags, cons, history>>

\* line 858-860: the throttle flag is stored after the mode (two plain stores
\* the GPU thread may read in between), then the command is allocated
SetVSync_StoreThrottle ==
  /\ prod.pc = "vsync_store"
  /\ \E allow_present_throttle \in BOOLEAN :
       /\ prod.arg = VSyncRequest(s_requested_vsync, allow_present_throttle)
       /\ s_requested_allow_present_throttle' = allow_present_throttle
  /\ prod' = [prod EXCEPT !.pc = "alloc"]
  /\ UNCHANGED <<device, startup, host, settings, s_requested_vsync, ring, wakestate, flags, cons,
                 history>>

\* line 446-448, 477-481: an UpdateVSync command is read and handled
RunGPULoop_DispatchUpdateVSync ==
  /\ cons.pc = "batch"
  /\ cons.read_ptr < cons.write_ptr
  /\ LET cell == m_command_fifo_data[cons.read_ptr \div 4]
         id == cell[1]
         updated == UpdateVSyncOnThread(DeviceState)
     IN /\ IsCommandHeader(cell)
        /\ cmds[id].command = "UpdateVSync"
        /\ Len(dispatched) < 3 * cmd_limit
        /\ dispatched' = Append(dispatched,
                                IF id <= Published /\ SlotIntact(m_command_fifo_data, cons.read_ptr, id)
                                  THEN id ELSE -id)
        /\ StoreDeviceState(updated, 0)
        /\ cons' = AfterHandler(updated, [cons EXCEPT !.read_ptr = cons.read_ptr + cmds[id].size])
  /\ UNCHANGED <<requested_vsync, settings, startup, ring, wakestate, flags, prod, cmd_limit, cmds,
                 out_of_bounds>>

\* line 760-767 on the GPU thread: RunOnThread's AllocateCommand (line 255-292).
\* Only this thread advances read, so its busy-wait of line 267-272 never ends.
RunOnThread_Allocate ==
  /\ cons.pc = "thunk_alloc"
  /\ LET size == AlignUpPow2(sizeofGPUThreadAsyncCallCommand, 4)
         read_ptr == m_command_fifo_read_ptr
         write_ptr == m_command_fifo_write_ptr
         id == Len(cmds) + 1
         wait == /\ cons' = [cons EXCEPT !.pc = "thunk_wait"]
                 /\ UNCHANGED <<ring, cmds, out_of_bounds>>
         slot == /\ m_command_fifo_data' = WriteSlot(m_command_fifo_data, write_ptr, size, id)
                 /\ cmds' = Append(cmds, [size |-> size, off |-> write_ptr,
                                           command |-> "PresentFrame", arg |-> "none"])
                 /\ out_of_bounds' = (out_of_bounds \/ write_ptr + size > COMMAND_QUEUE_SIZE)
                 /\ cons' = [cons EXCEPT !.pc = "thunk_push"]
                 /\ UNCHANGED <<m_command_fifo_read_ptr, m_command_fifo_write_ptr>>
         wrap == /\ m_command_fifo_data' = WriteSlot(m_command_fifo_data, write_ptr,
                                                     sizeofGPUBackendCommand, WrapId)
                 /\ out_of_bounds' = (out_of_bounds
                                        \/ sizeofGPUBackendCommand > COMMAND_QUEUE_SIZE - write_ptr)
                 /\ m_command_fifo_write_ptr' = 0
                 /\ UNCHANGED <<m_command_fifo_read_ptr, cmds, cons>>
     IN IF read_ptr > write_ptr
          THEN (IF MustWait(read_ptr - write_ptr, size) THEN wait ELSE slot)
          ELSE (IF MustWrap(COMMAND_QUEUE_SIZE - write_ptr, size) THEN wrap ELSE slot)
  /\ UNCHANGED <<lifecycle, wakestate, flags, prod, cmd_limit, dispatched>>

\* line 312-314 on the GPU thread: the fetch_add on the write pointer
RunOnThread_Publish ==
  /\ cons.pc = "thunk_push"
  /\ m_command_fifo_write_ptr' =
       m_command_fifo_write_ptr + AlignUpPow2(sizeofGPUThreadAsyncCallCommand, 4)
  /\ cons' = [cons EXCEPT !.pc = "thunk_wake"]
  /\ UNCHANGED <<lifecycle, m_command_fifo_data, m_command_fifo_read_ptr, wakestate, flags, prod, history>>

\* line 315, 334-340 on the GPU thread: WakeGPUThread, then back in the thunk
RunOnThread_Wake ==
  /\ cons.pc = "thunk_wake"
  /\ s_thread_wake_count' = FetchAdd2(s_thread_wake_count)
  /\ s_thread_wake_semaphore' =
       IF s_thread_wake_count < 0 /\ s_thread_wake_semaphore < MaxSemaphore
         THEN s_thread_wake_semaphore + 1 ELSE s_thread_wake_semaphore
  /\ cons' = [cons EXCEPT !.pc = "batch"]
  /\ UNCHANGED <<lifecycle, ring, s_thread_is_done_semaphore, flags, prod, history>>

\* line 452-456: a Wraparound slot: write is re-loaded, the cursor returns to 0
RunGPULoop_Wraparound ==
  /\ cons.pc = "batch"
  /\ cons.read_ptr < cons.write_ptr
  /\ IsWraparoundHeader(m_command_fifo_data[cons.read_ptr \div 4])
  /\ cons' = [cons EXCEPT !.pc = "wrap_store", !.read_ptr = 0,
                          !.write_ptr = m_command_fifo_write_ptr]
  /\ UNCHANGED <<lifecycle, ring, wakestate, flags, prod, history>>

\* line 459
RunGPULoop_WraparoundStore ==
  /\ cons.pc = "wrap_store"
  /\ m_command_fifo_read_ptr' = cons.read_ptr
  /\ cons' = [cons EXCEPT !.pc = "batch"]
  /\ UNCHANGED <<lifecycle, m_command_fifo_data, m_command_fifo_write_ptr, wakestate, flags, prod, history>>

\* line 446-448, 483-488: the bytes at the cursor are no header (payload or never
\* written): type and size are whatever is there.  The cursor moves by some
\* aligned amount that stays inside the buffer, or the thread faults.
RunGPULoop_DispatchGarbage ==
  /\ cons.pc = "batch"
  /\ cons.read_ptr < cons.write_ptr
  /\ LET cell == m_command_fifo_data[cons.read_ptr \div 4]
     IN ~IsCommandHeader(cell) /\ ~IsWraparoundHeader(cell)
  /\ Len(dispatched) < 3 * cmd_limit
  /\ dispatched' = Append(dispatched, 0)
  /\ \/ cons' = [cons EXCEPT !.pc = "crashed"]
     \/ \E sz \in RequestSizes :
          /\ cons.read_ptr + AlignUpPow2(sz, 4) <= COMMAND_QUEUE_SIZE
          /\ cons' = [cons EXCEPT !.read_ptr = cons.read_ptr + AlignUpPow2(sz, 4)]
  /\ UNCHANGED <<lifecycle, ring, wakestate, flags, prod, cmd_limit, cmds, out_of_bounds>>

\* line 444, 492: end of the batch
RunGPULoop_StoreReadPtr ==
  /\ cons.pc = "batch"
  /\ ~(cons.read_ptr < cons.write_ptr)
  /\ m_command_fifo_read_ptr' = cons.read_ptr
  /\ cons' = ConsLoop
  /\ UNCHANGED <<lifecycle, m_command_fifo_data, m_command_fifo_write_ptr, wakestate, flags, prod, history>>

\* line 495-497
RunGPULoop_Exit ==
  /\ cons.pc = "exit"
  /\ cons' = [ConsLoop EXCEPT !.pc = "done"]
  /\ StoreDeviceState(DestroyDeviceOnThread(DestroyGPUBackendOnThread(DeviceState)), 0)
  /\ UNCHANGED <<requested_vsync, settings, startup, ring, wakestate, flags, prod, history>>

\* The busy-wait of line 267-272 has no iteration bound: this many further
\* iterations fit into a handler of the GPU thread that takes a few seconds.
BusyWaitIterations == (THREAD_WAKE_COUNT_CPU_THREAD_IS_WAITING \div 2) - 1

\* line 267-272, 338: BusyWaitIterations iterations of the busy-wait in a row,
\* each one a fetch_add(2) of WakeGPUThread on a state that is not sleeping and
\* a reload that finds too little space, while the GPU thread is inside the
\* handler of the command at its cursor and read does not move.
AllocateCommand_BusyWait ==
  /\ prod.pc = "wake" /\ prod.ret = "alloc_reload"
  /\ cons.pc = "batch"
  /\ cons.read_ptr < cons.write_ptr
  /\ IsCommandHeader(m_command_fifo_data[cons.read_ptr \div 4])
  /\ s_thread_wake_count >= 0
  /\ s_thread_wake_count < THREAD_WAKE_COUNT_CPU_THREAD_IS_WAITING
  /\ MustWait(ReloadedAvailableSize(m_command_fifo_read_ptr, m_command_fifo_write_ptr),
              prod.size)
  /\ s_thread_wake_count' = s_thread_wake_count + 2 * BusyWaitIterations
  /\ UNCHANGED <<lifecycle, ring, s_thread_wake_semaphore, s_thread_is_done_semaphore,
                 flags, prod, cons, history>>

\* ------------------------------------------------------- specifications
\* Choices of the emulation thread: which facade call comes next.
ProducerCall ==
  \/ \E sz \in RequestSizes : CallPushCommand(sz)
  \/ \E sz \in RequestSizes : CallPushCommandAndWakeThread(sz)
  \/ \E sz \in RequestSizes : \E spin \in BOOLEAN : CallPushCommandAndSync(sz, spin)
  \/ Shutdown

\* Steps inside a facade call.
ProducerStep ==
  \/ AllocateCommand_Behind
  \/ AllocateCommand_Wraparound
  \/ AllocateCommand_Fits
  \/ AllocateCommand_Reload
  \/ PushCommand_Publish
  \/ PushCommand_CheckPending
  \/ WakeGPUThread_FetchAdd
  \/ WakeGPUThread_Post
  \/ SyncGPUThread_Spin
  \/ SyncGPUThread_CAS
  \/ SyncGPUThread_Wait
  \/ Shutdown_Join

Consumer ==
  \/ RunGPULoop_LoadPointers
  \/ RunGPULoop_Empty
  \/ SleepGPUThread_Enter
  \/ SleepGPUThread_CAS
  \/ SleepGPUThread_PostDone
  \/ SleepGPUThread_Wait
  \/ RunGPULoop_Dispatch
  \/ RunGPULoop_Wraparound
  \/ RunGPULoop_WraparoundStore
  \/ RunGPULoop_DispatchGarbage
  \/ RunGPULoop_StoreReadPtr
  \/ RunGPULoop_Exit

\* The run-idle flag stays off.
Next == ProducerCall \/ ProducerStep \/ Consumer

Spec == Init /\ [][Next]_vars

\* The host may switch idle presentation on and off.
InitRunIdle == Started /\ cmd_limit = MaxRunIdleCmds

NextRunIdle ==
  \/ ProducerCall
  \/ ProducerStep
  \/ Consumer
  \/ RunGPULoop_PresentIdle
  \/ \E enabled \in BOOLEAN : SetRunIdle(enabled)

SpecRunIdle == InitRunIdle /\ [][NextRunIdle]_vars

\* Both threads keep running: a thread that can take a step eventually takes one.
InitFair == Started /\ cmd_limit = MaxFairCmds

FairSpec == InitFair /\ [][Next]_vars /\ WF_vars(ProducerStep) /\ WF_vars(Consumer)

\* The producer only publishes with PushCommandAndWakeThread; idle
\* presentation stays off.
NextWake ==
  \/ \E sz \in RequestSizes : CallPushCommandAndWakeThread(sz)
  \/ AllocateCommand_Behind
  \/ AllocateCommand_Wraparound
  \/ AllocateCommand_Fits
  \/ AllocateCommand_Reload
  \/ PushCommand_Publish
  \/ WakeGPUThread_FetchAdd
  \/ WakeGPUThread_Post
  \/ RunGPULoop_LoadPointers
  \/ RunGPULoop_Empty
  \/ SleepGPUThread_Enter
  \/ SleepGPUThread_CAS
  \/ SleepGPUThread_Wait
  \/ RunGPULoop_Dispatch
  \/ RunGPULoop_Wraparound
  \/ RunGPULoop_WraparoundStore
  \/ RunGPULoop_DispatchGarbage
  \/ RunGPULoop_StoreReadPtr

FairWakeSpec ==
  InitFair /\ [][NextWake]_vars /\ WF_vars(ProducerStep) /\ WF_vars(Consumer)

\* A caller may also ask for more than the queue can ever hold.
OversizedRequest == COMMAND_QUEUE_SIZE - 4

NextOversize == Next \/ CallPushCommandAndWakeThread(OversizedRequest)

SpecOversize == InitFair /\ [][NextOversize]_vars

\* The producer thread keeps running; the GPU thread may stay in a handler for
\* any length of time.
FairProducerSpec == InitFair /\ [][Next]_vars /\ WF_vars(ProducerStep)

\* The life cycle: the thread is not started at first, the host starts it,
\* switches backends, pushes commands and shuts it down, while device creation
\* and backend initialization may fail.
NotStarted ==
  /\ m_command_fifo_data = [k \in Words |-> EmptyCell]
  /\ m_command_fifo_read_ptr = 0
  /\ m_command_fifo_write_ptr = 0
  /\ s_thread_wake_count = 0
  /\ s_thread_wake_semaphore = 0
  /\ s_thread_is_done_semaphore = 0
  /\ s_shutdown_flag = FALSE
  /\ s_run_idle_flag = FALSE
  /\ started = FALSE
  /\ prod = ProdIdle
  /\ cons = [ConsLoop EXCEPT !.pc = "done"]
  /\ cmds = <<>>
  /\ dispatched = <<>>
  /\ out_of_bounds = FALSE
  /\ g_gpu_device = FALSE
  /\ s_render_api = "None"
  /\ s_gpu_backend = NoBackend
  /\ s_requested_renderer = "nullopt"
  /\ s_open_flag = FALSE
  /\ m_sync_semaphore = 0
  /\ s_last_gpu_reset_time = 0
  /\ s_requested_vsync = "Disabled"
  /\ s_requested_allow_present_throttle = FALSE
  /\ SettingsAtStartup
  /\ device_vsync = <<"Disabled", FALSE>>

InitDevice ==
  /\ NotStarted
  /\ cmd_limit = MaxDeviceCmds
  /\ host = [HostIdle EXCEPT !.faults = MaxFaults, !.created = "none"]

DeviceCall ==
  \/ \E renderer \in GPURenderers \cup {"nullopt"} : CallStart(renderer)
  \/ \E renderer \in GPURenderers : CallCreateGPUBackend(renderer)
  \/ \E renderer \in GPURenderers : CallSwitchGPUBackend(renderer)
  \/ CallPushCommandAndWakeThread(sizeofGPUBackendCommand)
  \/ Shutdown

DeviceProducerStep ==
  \/ Start_Wait
  \/ Start_Join
  \/ AllocateCommand_Behind
  \/ AllocateCommand_Wraparound
  \/ AllocateCommand_Fits
  \/ AllocateCommand_Reload
  \/ PushCommand_Publish
  \/ WakeGPUThread_FetchAdd
  \/ WakeGPUThread_Post
  \/ SyncGPUThread_CAS
  \/ SyncGPUThread_Wait
  \/ Shutdown_Join

DeviceConsumer ==
  \/ RunGPULoop_Startup
  \/ Consumer
  \/ RunGPULoop_DispatchChangeBackend

NextDevice == DeviceCall \/ DeviceProducerStep \/ DeviceConsumer

SpecDevice == InitDevice /\ [][NextDevice]_vars

\* Idle presentation that may lose the device, while time passes and the host
\* switches renderers.
InitLost ==
  /\ Running
  /\ cmd_limit = MaxLostCmds
  /\ host = [HostIdle EXCEPT !.faults = MaxFaults]

NextLost ==
  \/ SetRunIdle(TRUE)
  \/ \E renderer \in GPURenderers : CallSwitchGPUBackend(renderer)
  \/ Tick
  \/ AllocateCommand_Fits
  \/ PushCommand_Publish
  \/ WakeGPUThread_FetchAdd
  \/ WakeGPUThread_Post
  \/ SyncGPUThread_CAS
  \/ SyncGPUThread_Wait
  \/ RunGPULoop_LoadPointers
  \/ RunGPULoop_Empty
  \/ SleepGPUThread_Enter
  \/ SleepGPUThread_CAS
  \/ SleepGPUThread_PostDone
  \/ SleepGPUThread_Wait
  \/ RunGPULoop_PresentIdle
  \/ RunGPULoop_DispatchChangeBackend
  \/ RunGPULoop_StoreReadPtr

SpecLost == InitLost /\ [][NextLost]_vars

\* Window updates of a paused system, between other commands.
InitThunk == Started /\ cmd_limit = MaxThunkCmds

NextThunk ==
  \/ CallUpdateDisplayWindow
  \/ CallPushCommandAndWakeThread(sizeofGPUBackendCommand)
  \/ AllocateCommand_Behind
  \/ AllocateCommand_Wraparound
  \/ AllocateCommand_Fits
  \/ AllocateCommand_Reload
  \/ PushCommand_Publish
  \/ WakeGPUThread_FetchAdd
  \/ WakeGPUThread_Post
  \/ RunGPULoop_LoadPointers
  \/ RunGPULoop_Empty
  \/ SleepGPUThread_Enter
  \/ SleepGPUThread_CAS
  \/ SleepGPUThread_Wait
  \/ RunGPULoop_Dispatch
  \/ RunGPULoop_Wraparound
  \/ RunGPULoop_WraparoundStore
  \/ RunGPULoop_StoreReadPtr
  \/ RunGPULoop_DispatchAsyncCall
  \/ RunOnThread_Allocate
  \/ RunOnThread_Publish
  \/ RunOnThread_Wake

SpecThunk == InitThunk /\ [][NextThunk]_vars

\* The producer may stay in the busy-wait of AllocateCommand for as long as a
\* handler of the GPU thread takes.
NextBusyWait == Next \/ AllocateCommand_BusyWait

SpecBusyWait == InitFair /\ [][NextBusyWait]_vars

\* SetVSync calls between other commands.
InitVSync == Started /\ cmd_limit = MaxVSyncCmds

NextVSync ==
  \/ \E mode \in GPUVSyncModes : \E allow_present_throttle \in BOOLEAN :
       CallSetVSync(mode, allow_present_throttle)
  \/ SetVSync_StoreThrottle
  \/ CallPushCommandAndWakeThread(sizeofGPUBackendCommand)
  \/ AllocateCommand_Behind
  \/ AllocateCommand_Wraparound
  \/ AllocateCommand_Fits
  \/ AllocateCommand_Reload
  \/ PushCommand_Publish
  \/ WakeGPUThread_FetchAdd
  \/ WakeGPUThread_Post
  \/ RunGPULoop_LoadPointers
  \/ RunGPULoop_Empty
  \/ SleepGPUThread_Enter
  \/ SleepGPUThread_CAS
  \/ SleepGPUThread_Wait
  \/ RunGPULoop_Dispatch
  \/ RunGPULoop_DispatchUpdateVSync
  \/ RunGPULoop_DispatchGarbage
  \/ RunGPULoop_Wraparound
  \/ RunGPULoop_WraparoundStore
  \/ RunGPULoop_StoreReadPtr

SpecVSync == InitVSync /\ [][NextVSync]_vars

\* ------------------------------------------------- Host setting accessors
\* A mutex that any thread may take while another one owns it.
MutexIgnored(mutex) == TRUE

\* host.cpp, first line of every accessor: std::unique_lock lock(s_settings_mutex)
\* returns once no thread owns the mutex.
MutexAcquirable(mutex) == mutex = "unlocked"

\* What the call of an accessor through the layered interface leaves in the
\* base layer: SetStringList (SetBase), AddToStringList (Add),
\* RemoveFromStringList (Remove), DeleteValue (Delete); the Get and Contains
\* accessors only read.
SettingsLayerAfter(op, value, layer) ==
  CASE op = "SetBase" -> [present |-> TRUE, list |-> {value}]
    [] op = "Add"     -> [present |-> TRUE, list |-> layer.list \cup {value}]
    [] op = "Remove"  -> [layer EXCEPT !.list = @ \ {value}]
    [] op = "Delete"  -> [present |-> FALSE, list |-> {}]
    [] OTHER          -> layer

\* host.cpp line 55-226: a thread calls one of the accessors
Host_Call(t, op, value) ==
  /\ accessor[t].pc = "idle"
  /\ accessor' = [accessor EXCEPT ![t] = [pc |-> "lock", op |-> op, value |-> value,
                                          result |-> {}]]
  /\ UNCHANGED <<ring, wakestate, flags, prod, cons, history, device, startup, host,
                 requested_vsync, s_settings_mutex, s_layered_settings_interface>>

\* the constructor of the unique_lock returns: the thread owns the mutex
Host_Lock(t) ==
  /\ accessor[t].pc = "lock"
  /\ MutexAcquirable(s_settings_mutex)
  /\ s_settings_mutex' = t
  /\ accessor' = [accessor EXCEPT ![t].pc = "inside"]
  /\ UNCHANGED <<ring, wakestate, flags, prod, cons, history, device, startup, host,
                 requested_vsync, s_layered_settings_interface>>

\* the call into s_layered_settings_interface or its base layer; the value it
\* returns is copied into the result of the accessor
Host_Access(t) ==
  /\ accessor[t].pc = "inside"
  /\ s_layered_settings_interface' =
       SettingsLayerAfter(accessor[t].op, accessor[t].value, s_layered_settings_interface)
  /\ accessor' = [accessor EXCEPT ![t].pc = "return",
                                  ![t].result = s_layered_settings_interface.list]
  /\ UNCHANGED <<ring, wakestate, flags, prod, cons, history, device, startup, host,
                 requested_vsync, s_settings_mutex>>

\* the accessor returns: the destructor of the unique_lock unlocks the mutex
Host_Return(t) ==
  /\ accessor[t].pc = "return"
  /\ s_settings_mutex' = "unlocked"
  /\ accessor' = [accessor EXCEPT ![t] = [pc |-> "idle", op |-> "none", value |-> "none",
                                          result |-> {}]]
  /\ UNCHANGED <<ring, wakestate, flags, prod, cons, history, device, startup, host,
                 requested_vsync, s_layered_settings_interface>>

\* Any thread may call any accessor at any time.
NextHost ==
  \/ \E t \in HostThreads :
       \E op \in {"Get", "GetBase", "SetBase", "Add", "Remove", "Contains", "Delete"} :
         \E value \in {"a", "b"} : Host_Call(t, op, value)
  \/ \E t \in HostThreads : Host_Lock(t)
  \/ \E t \in HostThreads : Host_Access(t)
  \/ \E t \in HostThreads : Host_Return(t)

SpecHost == Init /\ [][NextHost]_vars

\* ------------------------------------------------------- properties
Abs(n) == IF n < 0 THEN -n ELSE n

\* Command `id` has been handed to the dispatch switch exactly as written.
Dispatched(id) == \E i \in 1 .. Len(dispatched) : dispatched[i] = id

AllPublishedDispatched == \A id \in 1 .. Published : Dispatched(id)

\* C1: the commands dispatched so far are a prefix of the published sequence:
\* the i-th dispatch is the i-th published command, none skipped, none repeated.
C1_DispatchedIsPrefixOfPublished ==
  /\ Len(dispatched) <= Published
  /\ \A i \in 1 .. Len(dispatched) : Abs(dispatched[i]) = i

\* C2: a published slot that has not been dispatched yet still holds the bytes
\* its producer wrote (no later slot or Wraparound header was laid over it),
\* and every command that was dispatched had the type, size and payload written.
C2_NoLiveSlotOverwritten ==
  /\ \A id \in 1 .. Published :
       ~(\E i \in 1 .. Len(dispatched) : Abs(dispatched[i]) = id)
         => SlotIntact(m_command_fifo_data, cmds[id].off, id)
  /\ \A i \in 1 .. Len(dispatched) : dispatched[i] > 0

\* C3: read == write only when every published command has been dispatched, and
\* the consumer at the head of its loop with nothing left to dispatch sees read == write.
C3_ReadEqualsWriteIffEmpty ==
  /\ (m_command_fifo_read_ptr = m_command_fifo_write_ptr) => AllPublishedDispatched
  /\ (cons.pc = "loop" /\ AllPublishedDispatched)
       => (m_command_fifo_read_ptr = m_command_fifo_write_ptr)

\* PushCommandAndSync returns in this step.
SyncReturns ==
  /\ prod.op = "PushCommandAndSync"
  /\ prod.pc \in {"sync", "sync_wait"}
  /\ prod'.pc = "idle"

\* C4: when PushCommandAndSync returns, every command published so far
\* (the synced one included) has been dispatched.
C4_SyncReturnsAfterDispatch ==
  [][SyncReturns => AllPublishedDispatched']_vars

\* The producer has published command `id` and is about to wake a consumer
\* that is blocked on the wake semaphore in the sleeping state.
WakesSleepingConsumer(id) ==
  /\ prod.pc = "wake" /\ prod.ret \in {"idle", "sync"}
  /\ prod.op \in {"PushCommandAndWakeThread", "PushCommandAndSync"}
  /\ Len(cmds) = id
  /\ cons.pc = "sleep_wait"
  /\ s_thread_wake_count = THREAD_WAKE_COUNT_SLEEPING

\* C5: a command published with a wake while the consumer sleeps is eventually
\* dispatched (unless Shutdown is called first).
C5_NoLostWakeup ==
  \A id \in 1 .. MaxFairCmds :
    WakesSleepingConsumer(id) ~> (Dispatched(id) \/ s_shutdown_flag)

\* A producer is inside SyncGPUThread with the waiting flag set.
SyncInProgress == prod.pc = "sync_wait"

\* C6: the done semaphore never counts more than one post, and counts none
\* unless a producer has set the waiting flag and is in SyncGPUThread.
C6_DoneSemaphoreAtMostOnePerSync ==
  /\ s_thread_is_done_semaphore <= 1
  /\ ~SyncInProgress => s_thread_is_done_semaphore = 0

\* The producer is inside AllocateCommand.
InAllocateCommand ==
  \/ prod.pc \in {"alloc", "alloc_reload"}
  \/ prod.pc \in {"wake", "wake_post"} /\ prod.ret = "alloc_reload"

\* The consumer has read bytes that are no published slot.
ConsumerOffTrack ==
  cons.pc = "crashed" \/ \E i \in 1 .. Len(dispatched) : dispatched[i] <= 0

\* C7: every AllocateCommand call returns a slot, as long as the consumer keeps
\* dispatching what was published.
C7_AllocateCommandReturns ==
  InAllocateCommand ~> (prod.pc = "push" \/ ConsumerOffTrack)

\* C8: the producer never writes outside [0, COMMAND_QUEUE_SIZE), and the write
\* pointer never exceeds COMMAND_QUEUE_SIZE, also right after a publish.
C8_ProducerWritesInsideBuffer ==
  /\ ~out_of_bounds
  /\ m_command_fifo_write_ptr <= COMMAND_QUEUE_SIZE
  /\ prod.pc = "push" => m_command_fifo_write_ptr + prod.size <= COMMAND_QUEUE_SIZE

\* C9: whenever the consumer is about to read a slot at its cursor, the bytes
\* there are a Wraparound header or the header of a published command, and the
\* slot ends inside the buffer.
C9_ConsumerReadsPublishedSlots ==
  (cons.pc = "batch" /\ cons.read_ptr < cons.write_ptr) =>
    LET cell == m_command_fifo_data[cons.read_ptr \div 4]
    IN \/ IsWraparoundHeader(cell)
       \/ /\ IsCommandHeader(cell)
          /\ cell[1] <= Published
          /\ SlotIntact(m_command_fifo_data, cons.read_ptr, cell[1])
          /\ cons.read_ptr + cmds[cell[1]].size <= COMMAND_QUEUE_SIZE

\* C10: the consumer has left its loop only with every published command dispatched.
C10_ExitOnlyWhenDrained ==
  cons.pc \in {"exit", "done"} => AllPublishedDispatched

\* Shutdown() has set the flag and has not returned yet.
ShutdownInProgress ==
  prod.op = "Shutdown" /\ prod.pc \in {"wake", "wake_post", "join"}

\* Shutdown() has returned: the consumer left RunGPULoop and the thread is joined.
ShutdownReturned == prod.pc = "idle" /\ ~started /\ cons.pc = "done"

\* C11: a Shutdown() of a started thread always returns, with the consumer out
\* of its loop and joined; a Shutdown() of a thread that is not started changes nothing.
C11_ShutdownTerminates ==
  /\ ShutdownInProgress ~> ShutdownReturned
  /\ [][(~started /\ prod.pc = "idle") => UNCHANGED vars]_vars

\* Start() returns in this step.
StartReturns ==
  prod.op = "Start" /\ prod.pc \in {"start_wait", "start_join"} /\ prod'.pc = "idle"

\* The GPU thread leaves the head of RunGPULoop in this step.
StartupEnds == cons.pc = "startup" /\ cons'.pc # "startup"

\* C12: Start returns false exactly when CreateDeviceOnThread failed on the GPU
\* thread; the thread then posted the startup semaphore without creating a
\* backend or entering the loop, it is joined, no device exists and the render
\* API is None.  Otherwise Start returns true, after the device and (for a
\* requested renderer) the backend were created.
C12_StartResult ==
  /\ [][StartReturns =>
          IF host.created = "failed"
            THEN /\ host'.start_result = "false"
                 /\ ~started' /\ cons'.pc = "done"
                 /\ ~g_gpu_device' /\ s_render_api' = "None" /\ s_gpu_backend' = NoBackend
            ELSE /\ host.created = "created"
                 /\ host'.start_result = "true"
                 /\ started' /\ cons'.pc \notin {"startup", "done"}
                 /\ g_gpu_device'
                 /\ s_render_api' # "None"
                 /\ (s_gpu_backend' = NoBackend) <=> (s_requested_renderer' = "nullopt")]_vars
  /\ [][StartupEnds =>
          /\ m_sync_semaphore' = m_sync_semaphore + 1
          /\ host'.created = "failed" =>
                (cons'.pc = "done" /\ s_gpu_backend' = NoBackend /\ ~s_open_flag')]_vars

C12_Witness ==
  /\ host.start_result = "false" /\ prod.pc = "idle" /\ ~started
  /\ host.created = "failed" /\ Len(dispatched) > 0

\* The GPU thread is inside RunOnThread: in AllocateCommand or in
\* PushCommandAndWakeThread.
ConsumerInRunOnThread ==
  cons.pc \in {"thunk_alloc", "thunk_wait", "thunk_push", "thunk_wake"}

\* C13: only the producer thread allocates and publishes ring slots: the GPU
\* thread is never inside AllocateCommand or PushCommandAndWakeThread, not
\* even in the thunk of UpdateDisplayWindow; no step of the GPU thread hands
\* out a slot or moves the write pointer, and no slot of the GPU thread is
\* unpublished while one of the producer is.
C13_OnlyProducerAllocates ==
  /\ [](~ConsumerInRunOnThread)
  /\ [][(cons' # cons) =>
          (cmds' = cmds /\ m_command_fifo_write_ptr' = m_command_fifo_write_ptr)]_vars
  /\ [](~(prod.pc = "push" /\ cons.pc = "thunk_push"))

\* The producer is in the spin loop of SyncGPUThread(true).
SpinInProgress == prod.pc = "sync" /\ prod.spin

\* C14: the spin of SyncGPUThread(true) is bounded: a producer in the spin
\* loop leaves it, by returning (the GPU thread sleeps) or by going on to the
\* compare-exchange that sets CPU_WAITING and to the wait on the done
\* semaphore, however long the GPU thread takes.
C14_SpinIsBounded == SpinInProgress ~> (~SpinInProgress)

\* The present of this step lost the device: HandleGPUDeviceLost runs.
DeviceLost == cons.pc = "present" /\ host'.faults < host.faults

\* The "HostGPUDeviceLost" warnings posted so far, one per completed reset.
Warnings(osd) == Len(SelectSeq(osd, LAMBDA m : m = "HostGPUDeviceLost"))

\* C15: HandleGPUDeviceLost aborts exactly when an earlier reset was completed
\* less than MIN_TIME_BETWEEN_RESETS seconds before; otherwise it records the
\* time, destroys backend and device and recreates them for the requested
\* renderer, aborting only when the device cannot be recreated, and posts one
\* warning.
C15_DeviceLostRecovery ==
  [][DeviceLost =>
       IF /\ Warnings(host.osd) > 0
          /\ host.now - s_last_gpu_reset_time < MIN_TIME_BETWEEN_RESETS
         THEN /\ cons'.pc = "aborted"
              /\ UNCHANGED device
         ELSE /\ s_last_gpu_reset_time' = host.now
              /\ IF cons'.pc = "aborted"
                   THEN ~g_gpu_device' /\ s_gpu_backend' = NoBackend
                   ELSE /\ g_gpu_device'
                        /\ s_render_api' = GetRenderAPIForRenderer(RequestedOrDefault(DeviceState))
                        /\ (s_requested_renderer = "nullopt") => (s_gpu_backend' = NoBackend)
                        /\ (s_requested_renderer # "nullopt") =>
                             s_gpu_backend'.kind =
                               (IF s_requested_renderer' = "Software" THEN "software" ELSE "hardware")
                        /\ Warnings(host'.osd) = Warnings(host.osd) + 1]_vars

\* A second loss at least MIN_TIME_BETWEEN_RESETS seconds after the first was
\* recovered from.
C15_Witness ==
  /\ Warnings(host.osd) = 2
  /\ s_last_gpu_reset_time >= 1 + MIN_TIME_BETWEEN_RESETS
  /\ cons.pc # "aborted" /\ g_gpu_device

\* Initialize() of a hardware backend returns false in this step.
HardwareInitializeFails == host'.init_failed # host.init_failed

\* The "GPUBackendCreationFailed" messages posted so far.
CreationFailedMessages(osd) ==
  Len(SelectSeq(osd, LAMBDA m : m = "GPUBackendCreationFailed"))

\* C16: when Initialize() of the hardware backend that CreateGPUBackendOnThread
\* created returns false, the backend afterwards is a software backend, the
\* requested renderer is Software and exactly one OSD message was posted for
\* the failure (and none is posted without such a failure).
C16_HardwareFailureFallsBack ==
  [][IF HardwareInitializeFails
       THEN /\ host'.init_failed = host.init_failed + 1
            /\ s_gpu_backend'.kind = "software"
            /\ s_requested_renderer' = "Software"
            /\ CreationFailedMessages(host'.osd) = CreationFailedMessages(host.osd) + 1
       ELSE CreationFailedMessages(host'.osd) = CreationFailedMessages(host.osd)]_vars

\* A renderer switch to a hardware renderer fell back to software.
C16_Witness ==
  /\ host.init_failed > 0
  /\ s_gpu_backend.kind = "software"
  /\ s_requested_renderer = "Software"
  /\ \E i \in DOMAIN host.handled : host.handled[i][2] = "OpenGL"

\* The GPU thread is about to hand the command at its cursor to the backend.
BackendHandlesCommand ==
  /\ cons.pc = "batch"
  /\ cons.read_ptr < cons.write_ptr
  /\ IsCommandHeader(m_command_fifo_data[cons.read_ptr \div 4])
  /\ cmds[m_command_fifo_data[cons.read_ptr \div 4][1]].command = "Backend"
  /\ s_gpu_backend # NoBackend

\* C17: the backend that handles a command was initialized successfully: the
\* fallback software backend is initialized before use, and a failed
\* Initialize of it, or of a requested software backend, aborts instead.
C17_BackendInUseIsInitialized ==
  BackendHandlesCommand => s_gpu_backend.initialized

\* SwitchGPUBackend / CreateGPUBackend returns in this step (its
\* PushCommandAndSync does).
SwitchReturns ==
  /\ prod.command = "ChangeBackend"
  /\ prod.pc \in {"sync", "sync_wait"}
  /\ prod'.pc = "idle"

\* C18: when SwitchGPUBackend(R, false) or CreateGPUBackend(R) on a started
\* thread returns, the GPU thread has run the ChangeBackend handler for the
\* command of this call, and the handler read s_requested_renderer = R.
C18_SwitchReturnsAfterHandler ==
  [][SwitchReturns =>
       \E i \in DOMAIN host.handled : host.handled[i] = <<Len(cmds), prod.arg>>]_vars

\* The producer is inside AllocateCommand with a size above
\* COMMAND_QUEUE_SIZE - sizeof(GPUThreadCommand).
OversizedAllocation ==
  /\ prod.pc \in {"alloc", "alloc_reload", "wake", "wake_post"}
  /\ prod.size > COMMAND_QUEUE_SIZE - sizeofGPUThreadCommand

\* C19: AllocateCommand with a size above COMMAND_QUEUE_SIZE minus the header
\* size is rejected by a fatal assertion: the call hands out no slot and
\* changes nothing in the ring, the producer goes nowhere but into the abort.
C19_OversizedAllocationRejected ==
  [][OversizedAllocation =>
       /\ m_command_fifo_data' = m_command_fifo_data
       /\ m_command_fifo_write_ptr' = m_command_fifo_write_ptr
       /\ cmds' = cmds
       /\ prod'.pc \in {prod.pc, "aborted"}]_vars

\* Every command was dispatched and the GPU thread sleeps on the wake
\* semaphore, with nothing left in either semaphore.
Quiescent ==
  /\ prod.pc = "idle"
  /\ AllPublishedDispatched
  /\ m_command_fifo_read_ptr = m_command_fifo_write_ptr
  /\ s_thread_wake_count = THREAD_WAKE_COUNT_SLEEPING
  /\ cons.pc = "sleep_wait"
  /\ s_thread_wake_semaphore = 0
  /\ s_thread_is_done_semaphore = 0

\* C20: after finitely many commands published with wake, idle presentation
\* off, the system reaches and stays in the state where every command was
\* dispatched, read = write, the wake state is -1, the GPU thread is blocked
\* on the wake semaphore and both semaphores count 0.
C20_QuiescentAfterWakes == <>[]Quiescent

\* C21: whenever the GPU thread enters SleepGPUThread the wake state is >= 0
\* (the DebugAssert of line 370 holds), with allow_sleep true and with
\* allow_sleep false, also when consecutive loop iterations find the ring empty.
C21_WakeStateNonNegativeOnSleepEntry ==
  cons.pc = "sleep_enter" => s_thread_wake_count >= 0

\* The GPU thread is about to run ChangeGPUBackendOnThread for the command at
\* its cursor.
ChangeBackendAtCursor ==
  /\ cons.pc = "batch"
  /\ cons.read_ptr < cons.write_ptr
  /\ IsCommandHeader(m_command_fifo_data[cons.read_ptr \div 4])
  /\ cmds[m_command_fifo_data[cons.read_ptr \div 4][1]].command = "ChangeBackend"

\* C22: whenever ChangeGPUBackendOnThread runs with a requested renderer
\* present, a current backend exists for the VRAM read-back of line 676, also
\* on a thread that was started with no renderer; the handler never calls
\* through an empty s_gpu_backend.
C22_BackendExistsForReadback ==
  (ChangeBackendAtCursor /\ s_requested_renderer # "nullopt") => s_gpu_backend # NoBackend

\* The GPU thread is blocked in s_thread_wake_semaphore.Wait().
ConsumerBlocked == cons.pc = "sleep_wait" /\ s_thread_wake_semaphore = 0

\* C23: with the ring empty, no shutdown requested and the run-idle flag set
\* the GPU thread is never blocked on the wake semaphore; SleepGPUThread(false)
\* returns without waiting, and each empty iteration presents one frame and
\* goes back to the head of the loop.
C23_RunIdleNeverBlocks ==
  /\ []((/\ m_command_fifo_read_ptr = m_command_fifo_write_ptr
         /\ ~s_shutdown_flag
         /\ s_run_idle_flag) => ~ConsumerBlocked)
  /\ [][(cons.pc \in {"sleep_cas", "sleep_post"} /\ ~cons.allow_sleep)
          => cons'.pc \in {cons.pc, "sleep_post", "present", "loop"}]_vars
  /\ [][(cons.pc = "present" /\ cons' # cons)
          => cons'.pc \in {"loop", "aborted", "crashed"}]_vars

\* C24: the wake semaphore never counts more than one post: it is posted only
\* by a WakeGPUThread that saw the sleeping state, and each post is consumed
\* by one wait of the GPU thread, also while idle presentation is enabled and
\* after it is switched off again.
C24_WakeSemaphoreAtMostOne ==
  /\ s_thread_wake_semaphore <= 1
  /\ prod.pc = "wake_post" => s_thread_wake_semaphore = 0

\* Shutdown() has returned (the GPU thread is joined).
AfterShutdown == ~started /\ prod.pc = "idle" /\ s_shutdown_flag /\ cons.pc = "done"

\* C26: after Shutdown() returns, whatever the GPU thread was doing when it
\* was called, the shared state is clean for the next Start: read = write, the
\* wake state is >= 0 and both semaphores count 0.
C26_CleanAfterShutdown ==
  AfterShutdown =>
    /\ m_command_fifo_read_ptr = m_command_fifo_write_ptr
    /\ s_thread_wake_count >= 0
    /\ s_thread_wake_semaphore = 0
    /\ s_thread_is_done_semaphore = 0

\* A fetch_add of WakeGPUThread changes the wake state in this step.
WakeGPUThreadAdds ==
  /\ prod.pc = "wake"
  /\ cons' = cons
  /\ s_thread_wake_count' # s_thread_wake_count

\* C25: WakeGPUThread never changes the CPU_WAITING bit of a wake state that is
\* not sleeping, however many wakes are issued between two sleeps of the GPU
\* thread (the busy-wait of AllocateCommand included): the pending-work count
\* never carries into the flag bit; and a wake from the sleeping state leaves a
\* strictly positive count.
C25_WakePreservesWaitingBit ==
  [][WakeGPUThreadAdds =>
       IF s_thread_wake_count >= 0
         THEN /\ WaitingFlagOf(s_thread_wake_count') = WaitingFlagOf(s_thread_wake_count)
              /\ GetThreadWakeCount(s_thread_wake_count') > GetThreadWakeCount(s_thread_wake_count)
         ELSE GetThreadWakeCount(s_thread_wake_count') > 0]_vars

\* The producer writes a Wraparound slot in this step (line 280-284).
WraparoundWritten == prod.pc = "alloc" /\ prod' = prod /\ cons' = cons

\* The GPU thread consumes a Wraparound slot in this step (line 452-456).
WraparoundConsumed == cons.pc = "batch" /\ cons'.pc = "wrap_store"

\* C27: a Wraparound slot written by the producer lies in the bytes from the
\* write offset to COMMAND_QUEUE_SIZE, none beyond, and is followed by the
\* store write = 0; when the GPU thread consumes one, nothing is handed to the
\* backend, the cursor becomes 0, write is loaded again, and read = 0 is stored
\* before any following slot is dispatched.
C27_WraparoundSlot ==
  /\ [][WraparoundWritten =>
          /\ m_command_fifo_write_ptr + sizeofGPUBackendCommand <= COMMAND_QUEUE_SIZE
          /\ out_of_bounds' = out_of_bounds
          /\ m_command_fifo_data'[m_command_fifo_write_ptr \div 4] = <<WrapId, 0>>
          /\ m_command_fifo_write_ptr' = 0]_vars
  /\ [][WraparoundConsumed =>
          /\ dispatched' = dispatched
          /\ cons'.read_ptr = 0
          /\ cons'.write_ptr = m_command_fifo_write_ptr
          /\ m_command_fifo_read_ptr' = m_command_fifo_read_ptr]_vars
  /\ [][(cons.pc = "wrap_store" /\ cons' # cons) =>
          /\ m_command_fifo_read_ptr' = 0
          /\ dispatched' = dispatched
          /\ cons'.pc = "batch" /\ cons'.read_ptr = 0]_vars

\* ChangeGPUBackendOnThread runs in this step.
ChangeBackendHandled == ChangeBackendAtCursor /\ cons' # cons

\* The handler of this step is for a hardware renderer whose render API is not
\* the API of the current device.
RenderAPISwitch ==
  /\ ChangeBackendHandled
  /\ s_requested_renderer \notin {"nullopt", "Software"}
  /\ s_gpu_backend # NoBackend
  /\ ~IsSameRenderAPI(s_render_api, GetRenderAPIForRenderer(s_requested_renderer))

\* The "DeviceSwitchFailed" messages posted so far.
SwitchFailedMessages(osd) == Len(SelectSeq(osd, LAMBDA m : m = "DeviceSwitchFailed"))

C30_BackendOnlyWithDevice ==
  /\ s_gpu_backend # NoBackend => g_gpu_device
  /\ ~host.orphaned

\* The thread switched to the OpenGL device, ran with a hardware backend and
\* has left its loop: backend and device are gone.
C30_Witness ==
  /\ cons.pc = "done" /\ ~started
  /\ ~g_gpu_device /\ s_gpu_backend = NoBackend
  /\ s_render_api = "OpenGL"
  /\ host.start_result = "true"
  /\ \E i \in DOMAIN host.handled : host.handled[i][2] = "OpenGL"


\* ---- C29
IsUpdateVSync(c) == c.command = "UpdateVSync"

\* The UpdateVSync commands enqueued so far, oldest first.
VSyncCommands == SelectSeq(cmds, IsUpdateVSync)

\* The values requested before the i-th UpdateVSync command was enqueued.
RequestedBefore(i) ==
  IF i = 1 THEN VSyncRequest("Disabled", FALSE) ELSE VSyncCommands[i - 1].arg

\* No SetVSync call is in progress and the GPU thread has stored a read
\* pointer equal to the write pointer.
RingDrained ==
  prod.pc = "idle" /\ m_command_fifo_read_ptr = m_command_fifo_write_ptr

\* C29: SetVSync enqueues no command when both values equal the requested
\* ones and exactly one UpdateVSync command otherwise (every UpdateVSync
\* command differs from the request before it, and between calls the requested
\* values are those of the last UpdateVSync command); once the ring has been
\* drained the device has the mode and throttle flag of the last SetVSync call.
C29_VSyncAppliedOnceDrained ==
  /\ \A i \in 1 .. Len(VSyncCommands) : VSyncCommands[i].arg # RequestedBefore(i)
  /\ prod.pc = "idle" =>
       VSyncRequest(s_requested_vsync, s_requested_allow_present_throttle)
         = RequestedBefore(Len(VSyncCommands) + 1)
  /\ RingDrained => device_vsync = <<s_requested_vsync, s_requested_allow_present_throttle>>

\* ---- C31
\* C31: every Host setting accessor holds the settings mutex for its whole
\* access to the layered settings interface and releases it on return: a
\* thread inside the interface owns the mutex, so no two threads are inside
\* at the same time, and a mutex that is owned is owned by a thread that has
\* locked it in an accessor and not yet returned.
C31_AccessorsHoldSettingsMutex ==
  /\ \A t \in HostThreads :
       accessor[t].pc \in {"inside", "return"} => s_settings_mutex = t
  /\ \A t, u \in HostThreads :
       (accessor[t].pc \in {"inside", "return"} /\ accessor[u].pc \in {"inside", "return"})
         => t = u
  /\ s_settings_mutex # "unlocked" => accessor[s_settings_mutex].pc \in {"inside", "return"}

\* One thread is inside a writing accessor while the two others wait for the
\* mutex, after earlier accessors have written the base layer.
C31_Witness ==
  /\ accessor["GPU"].pc = "inside" /\ accessor["GPU"].op = "Remove"
  /\ accessor["CPU"].pc = "lock" /\ accessor["UI"].pc = "lock"
  /\ s_settings_mutex = "GPU"
  /\ s_layered_settings_interface.list = {"a", "b"}

====
